---- MODULE Spec2Model ----
(***************************************************************************)
(* Overlap-aware image tiler and weighted-blend merger of                  *)
(* seaformer-seg/splitpng.py (ImprovedImageTiler, ImprovedImageMerger),    *)
(* and the label increment of seaformer-seg/changepngvalue.py.             *)
(*                                                                         *)
(* Images are RGB; the three channels go through identical arithmetic, so  *)
(* a pixel is modelled by the value of one channel (0..255).               *)
(* Pixel arrays are functions over <<y, x>> with 0-based coordinates, as   *)
(* numpy indexes them.                                                     *)
(***************************************************************************)
EXTENDS Integers, Sequences, FiniteSets, TLC

\* ------------------------------------------------------------------ bounds
\* Grid inputs: every tile size, overlap and image size up to these.
MaxTile == 2
MaxWidth == 3
MaxHeight == 3
\* Long inputs: one long, thin image (either orientation) and a large tile.
MaxLong == 71
MaxShort == 1
MaxLongTile == 10
MaxLongOverlap == 1
\* Batch inputs: up to MaxImages files in the input directory.
MaxImages == 2
\* Inference results absent from the results directory, per run.
MaxMissing == 1
\* Inference results of a wrong size or unreadable, per run.
MaxDamaged == 1
\* Label files in a labels directory, and pixels in a label file.
MaxLabelFiles == 2
MaxLabelPixels == 2

\* ----------------------------------------------------------- arithmetic
Min(a, b) == IF a <= b THEN a ELSE b

Max(a, b) == IF a >= b THEN a ELSE b

RECURSIVE Pow2(_)
Pow2(n) == IF n = 0 THEN 1 ELSE 2 * Pow2(n - 1)

\* math.ceil(a / b) for integers a >= 0 and b # 0 (the float quotient of two
\* small integers is an integer only when the exact quotient is).
CeilDiv(a, b) ==
  IF b < 0 THEN 0 - (a \div (0 - b))
  ELSE IF a % b = 0 THEN a \div b ELSE (a \div b) + 1

\* floor(log2(n / d)) for n, d > 0.
RECURSIVE Log2Up(_, _, _)
Log2Up(n, d, j) == IF d * Pow2(j + 1) <= n THEN Log2Up(n, d, j + 1) ELSE j

RECURSIVE Log2Down(_, _, _)
Log2Down(n, d, i) == IF n * Pow2(i) >= d THEN i ELSE Log2Down(n, d, i + 1)

Log2Floor(n, d) == IF n >= d THEN Log2Up(n, d, 0) ELSE 0 - Log2Down(n, d, 1)

RECURSIVE PowMod(_, _, _)
PowMod(b, e, k) == IF e = 0 THEN 1 % k ELSE (b * PowMod(b, e - 1, k)) % k

\* The decimal digits of n >= 0, most significant first.
RECURSIVE Digits(_)
Digits(n) == IF n < 10 THEN <<n>> ELSE Append(Digits(n \div 10), n % 10)

\* f"{n:0{width}d}": the digits of n, zero-padded on the left to width.
ZeroPad(n, width) ==
  LET d == Digits(n)
  IN [k \in 1..(Max(width, Len(d)) - Len(d)) |-> 0] \o d

\* --------------------------------------------- binary64 (Python float)
\* A Python float that is the quotient of two integers is kept as the exact
\* quotient num/den together with its IEEE-754 binary64 rounding error:
\*   value = num/den + err / (den * 2^exp),
\* where 2^exp scales the quotient to a 53-bit significand and err is the
\* (round-half-even) distance, in units of 1/den, from the exact scaled
\* quotient to the significand.  An integer n is [num |-> n, den |-> 1].
FloatOfInt(n) == [num |-> n, den |-> 1, err |-> 0, exp |-> 0]

\* a / k in binary64, a >= 1 and k >= 1 integers.
FloatDiv(a, k) ==
  LET j == Log2Floor(a, k)
      e == 52 - j
      r == ((a % k) * PowMod(2, e, k)) % k
      r2 == ((a % (2 * k)) * PowMod(2, e, 2 * k)) % (2 * k)
      qodd == r2 # r
      down == (2 * r < k) \/ (2 * r = k /\ ~qodd)
  IN [num |-> a, den |-> k, err |-> IF down THEN 0 - r ELSE k - r, exp |-> e]

\* -f.
FloatNeg(f) == [num |-> 0 - f.num, den |-> f.den, err |-> 0 - f.err, exp |-> f.exp]

\* over / steps as calculate_optimal_tiling divides them: over > 0, steps # 0.
Stride(over, steps) ==
  IF over > 0 /\ steps > 0 THEN FloatDiv(over, steps)
  ELSE IF over > 0 /\ steps < 0 THEN FloatNeg(FloatDiv(over, 0 - steps))
  ELSE FloatOfInt(0)

\* Variant of the truncation below: round(c * s), to the nearest integer.
TruncMulNearest(c, s) == (2 * c * s.num + s.den) \div (2 * s.den)

\* int(c * s): the binary64 product of the integer c >= 0 and the float s,
\* truncated toward zero.  The product is rounded to 53 bits before int()
\* truncates it, so when c * num / den is an integer N and s was rounded
\* down, the product may round to the float just below N and truncate to N-1.
TruncMul(c, s) ==
  IF c = 0 \/ s.num = 0 THEN 0
  ELSE IF (c * s.num) % s.den # 0 THEN (c * s.num) \div s.den
  ELSE LET N == (c * s.num) \div s.den
           j == Log2Floor(s.num, s.den)
           jN == Log2Floor(N, 1)
           scale == s.den * Pow2(jN - j)
           lost == c * (0 - s.err)
           below == IF N = Pow2(jN) THEN 4 * lost > scale ELSE 2 * lost > scale
       IN IF s.err < 0 /\ below THEN N - 1 ELSE N

\* ------------------------------------------------- float32 (numpy.float32)
\* A non-negative float32 is [m, e] with value m * 2^e and a 24-bit
\* significand 2^23 <= m < 2^24; zero is [m |-> 0, e |-> 0].  Every operation
\* rounds its exact result to nearest, ties to even, as IEEE-754 does.
F32Zero == [m |-> 0, e |-> 0]

F32One == [m |-> 8388608, e |-> 0 - 23]

\* q plus the fraction rnum/rden (0 <= rnum < rden), rounded half-even.
F32Round(q, rnum, rden, e) ==
  LET up == (2 * rnum > rden) \/ (2 * rnum = rden /\ q % 2 = 1)
      r == IF up THEN q + 1 ELSE q
  IN IF r = 16777216 THEN [m |-> 8388608, e |-> e + 1] ELSE [m |-> r, e |-> e]

\* The float32 nearest to p / q, for integers 0 <= p, 1 <= q < 128.
F32OfRatio(p, q) ==
  IF p = 0 THEN F32Zero
  ELSE LET j == Log2Floor(p, q)
           n == p * Pow2(23 - j)
       IN F32Round(n \div q, n % q, q, j - 23)

F32OfInt(v) == F32OfRatio(v, 1)

F32Mul(a, b) ==
  IF a.m = 0 \/ b.m = 0 THEN F32Zero
  ELSE LET h1 == a.m \div 4096
           l1 == a.m % 4096
           h2 == b.m \div 4096
           l2 == b.m % 4096
           mid == h1 * l2 + l1 * h2
           low == (mid % 4096) * 4096 + l1 * l2
           hi == h1 * h2 + (mid \div 4096) + (low \div 16777216)
           lo == low % 16777216
       IN IF hi >= 8388608
          THEN F32Round(hi, lo, 16777216, a.e + b.e + 24)
          ELSE F32Round(2 * hi + (lo \div 8388608), lo % 8388608, 8388608,
                        a.e + b.e + 23)

F32Add(a, b) ==
  IF a.m = 0 THEN b
  ELSE IF b.m = 0 THEN a
  ELSE LET big == IF a.e >= b.e THEN a ELSE b
           small == IF a.e >= b.e THEN b ELSE a
           d == big.e - small.e
       IN IF d >= 25 THEN big
          ELSE LET p == Pow2(d)
                   sum == big.m + (small.m \div p)
                   r == small.m % p
               IN IF sum < 16777216
                  THEN F32Round(sum, r, p, big.e)
                  ELSE F32Round(sum \div 2, (sum % 2) * p + r, 2 * p, big.e + 1)

\* <<quotient, remainder>> of (r * 2^k) / b by binary long division, r < b.
RECURSIVE LongDiv(_, _, _, _)
LongDiv(r, b, k, q) ==
  IF k = 0 THEN <<q, r>>
  ELSE IF 2 * r >= b THEN LongDiv(2 * r - b, b, k - 1, 2 * q + 1)
  ELSE LongDiv(2 * r, b, k - 1, 2 * q)

F32Div(a, b) ==
  IF a.m = 0 THEN F32Zero
  ELSE LET k == IF a.m >= b.m THEN 23 ELSE 24
           qr == LongDiv(a.m % b.m, b.m, k, a.m \div b.m)
       IN F32Round(qr[1], qr[2], b.m, a.e - b.e - k)

\* Variant of the conversion below: round to nearest instead of truncating.
F32ToUint8Nearest(f) ==
  IF f.m = 0 THEN 0
  ELSE IF f.e >= 0 - 15 THEN 255
  ELSE IF 0 - f.e > 25 THEN 0
  ELSE Min(255, (f.m + Pow2((0 - f.e) - 1)) \div Pow2(0 - f.e))

\* np.clip(f, 0, 255).astype(np.uint8): clamp, then drop the fraction.
F32ToUint8(f) ==
  IF f.m = 0 THEN 0
  ELSE IF f.e >= 0 - 15 THEN 255
  ELSE IF 0 - f.e > 24 THEN 0
  ELSE Min(255, f.m \div Pow2(0 - f.e))

\* ----------------------------------------------------------------- inputs
\* Image content: pixel (y, x) of a source image is a linear ramp from a base
\* value, so that neighbouring pixels differ and every crop offset shows.
Pixel(img, y, x) == (img.base + 7 * x + 31 * y) % 256

UnreadableImage == [readable |-> FALSE, width |-> 1, height |-> 1, base |-> 0]

ImageOf(w, h, b) == [readable |-> TRUE, width |-> w, height |-> h, base |-> b]

\* The n-th file of the directory listing: distinct stems, extension .png.
Stems == <<"a", "b", "c", "d">>

Named(img, n) ==
  [name |-> [stem |-> Stems[n], ext |-> ".png"], readable |-> img.readable,
   width |-> img.width, height |-> img.height, base |-> img.base]

\* A file of the listing under the name it has in the directory.
Listed(img, name) ==
  [name |-> name, readable |-> img.readable,
   width |-> img.width, height |-> img.height, base |-> img.base]

\* The listing of a run: its files under their own names, and a file given
\* without a name under the name of its position.
NamedFiles(f) ==
  [n \in DOMAIN f |-> IF "name" \in DOMAIN f[n] THEN f[n] ELSE Named(f[n], n)]

Configs(lo, hi, maxOverlap) ==
  { c \in [tile_size : lo..hi, min_overlap : 0..maxOverlap] :
      c.min_overlap < c.tile_size }

\* One tiler configuration and the image files that the glob of the input
\* directory returns.
GridRuns ==
  { [cfg |-> c, files |-> <<ImageOf(w, h, b)>>] :
      c \in Configs(1, MaxTile, MaxTile),
      w \in 1..MaxWidth, h \in 1..MaxHeight, b \in {59, 250} }

LongRuns ==
  { [cfg |-> c, files |-> <<ImageOf(sz[1], sz[2], 1)>>] :
      c \in Configs(MaxLongTile - 1, MaxLongTile, MaxLongOverlap),
      sz \in ((1..MaxLong) \X (1..MaxShort)) \cup ((1..MaxShort) \X (1..MaxLong)) }

\* Batch inputs: an unreadable file, an image smaller than the tile and an
\* image of two tiles, in every order; and a directory without image files.
BatchImages ==
  { UnreadableImage, ImageOf(1, 1, 59), ImageOf(MaxTile + 1, 1, 250) }

BatchRuns ==
  { [cfg |-> [tile_size |-> MaxTile, min_overlap |-> 0], files |-> f] :
      f \in UNION { [1..n -> BatchImages] : n \in {0} \cup (2..MaxImages) } }

\* The patterns that split_all_images globs, in order: each extension of
\* image_extensions, then its upper case.
image_extensions ==
  <<".png", ".PNG", ".jpg", ".JPG", ".jpeg", ".JPEG", ".tif", ".TIF",
    ".tiff", ".TIFF">>

\* The position of the glob that finds a file of the given extension.
GlobRank(ext) ==
  CHOOSE n \in 1..Len(image_extensions) : image_extensions[n] = ext

\* Directories of two distinct files whose names come from two stems and two
\* extensions, so that files can share the stem, the extension or neither:
\* a one-tile image with value 59 and a two-tile image with value 250.  The
\* listing has the files in the order of the globs that find them and, among
\* the files of one glob, in any order.
StemNames == { [stem |-> s, ext |-> e] : s \in {"a", "b"}, e \in {".png", ".jpg"} }

StemRuns ==
  UNION { { [cfg |-> [tile_size |-> MaxTile, min_overlap |-> 0],
             files |-> <<Listed(ImageOf(1, 1, 59), n1),
                         Listed(ImageOf(MaxTile + 1, 1, 250), n2)>>] :
              n2 \in { n \in StemNames :
                         n # n1 /\ GlobRank(n1.ext) <= GlobRank(n.ext) } } :
          n1 \in StemNames }

\* Configurations outside 0 <= min_overlap < tile_size: the overlap equal to
\* the tile size and larger than it, on images of one row.
InvalidRuns ==
  { [cfg |-> [tile_size |-> ts, min_overlap |-> ts + d],
     files |-> <<ImageOf(w, 1, 59)>>] :
      ts \in 1..MaxTile, d \in 0..1, w \in 1..MaxWidth }

\* Tiles wide enough for a fade band of 2 and of 3 pixels.
BlendRuns ==
  { [cfg |-> c, files |-> <<ImageOf(sz[1], sz[2], 59)>>] :
      c \in { [tile_size |-> 8, min_overlap |-> 2],
              [tile_size |-> 12, min_overlap |-> 0] },
      sz \in { <<12, 12>>, <<12, 4>>, <<9, 8>>, <<13, 3>> } }

\* Three tiles in a row that all cover the same pixels, with a fade band of 3.
OverlapRuns ==
  { [cfg |-> [tile_size |-> 12, min_overlap |-> 8],
     files |-> <<ImageOf(20, 4, 59)>>] }

\* Label files (changepngvalue.py): a file that cannot be opened, an image
\* of three channels, and single-channel 8-bit images with pixel values at
\* both ends of the range.
LabelValues == {0, 254, 255}

LabelFiles ==
  { [readable |-> FALSE, channels |-> 1, px |-> <<>>],
    [readable |-> TRUE, channels |-> 3, px |-> <<0>>] }
  \cup { [readable |-> TRUE, channels |-> 1, px |-> a] :
           a \in UNION { [1..n -> LabelValues] : n \in 1..MaxLabelPixels } }

LabelDirs == UNION { [1..n -> LabelFiles] : n \in 1..MaxLabelFiles }

\* A tiler that is given no directory.
IdleRun == [cfg |-> [tile_size |-> 1, min_overlap |-> 0], files |-> <<>>]

\* ------------------------------------------------------------------ state
VARIABLES
  tile_size, min_overlap,   \* ImprovedImageTiler.tile_size / .min_overlap
  image_files,              \* split_all_images: the files found by the glob
  pc,                       \* position of the run
  i,                        \* split_all_images: index of the current file
  tiling,                   \* split_image: result of calculate_optimal_tiling
  row, col,                 \* split_image: position of the tile loops
  tiles_info,               \* split_image: the tile records so far
  returned,                 \* what split_image returned for each file so far
  all_images_info,          \* split_all_images: the plans collected
  tiles_dir,                \* tile files on disk: filename -> pixels
  manifest,                 \* tiling_info.json on disk, <<>> until written
  manifest_writes,          \* number of times the manifest was written
  split_report,             \* split_all_images: the closing statistics printed
  inference_dir,            \* inference results on disk: filename -> pixels
  j,                        \* merge_all_images: index of the current plan
  t,                        \* merge_single_image: index of the current tile
  weight_matrix,            \* merge_single_image: float32 weight buffer
  accumulated_img,          \* merge_single_image: float32 accumulation buffer
  missing_tiles,            \* merge_single_image: filenames not found
  merge_log,                \* per plan gone through: its id, what the merge
                            \* returned, its missing tiles, the names printed
  output_dir,               \* reconstructed images on disk: filename -> pixels
  success_count,            \* merge_all_images: merges that returned True
  merge_report,             \* merge_all_images: the closing statistics printed
  png_files,                \* changepngvalue: the label files on disk
  png_before,               \* the label files as they were before the run
  png_index,                \* changepngvalue: files gone through so far
  processed_count           \* changepngvalue: files rewritten

vars ==
  <<tile_size, min_overlap, image_files, pc, i, tiling, row, col, tiles_info,
    returned, all_images_info, tiles_dir, manifest, manifest_writes,
    split_report, inference_dir, j, t, weight_matrix, accumulated_img,
    missing_tiles, merge_log, output_dir, success_count, merge_report,
    png_files, png_before, png_index, processed_count>>

splitVars ==
  <<tile_size, min_overlap, image_files, i, tiling, row, col, tiles_info,
    returned, all_images_info, tiles_dir, manifest, manifest_writes,
    split_report>>

mergeVars ==
  <<inference_dir, j, t, weight_matrix, accumulated_img, missing_tiles,
    merge_log, output_dir, success_count, merge_report>>

labelVars == <<png_files, png_before, png_index, processed_count>>

NoTiling == [tiles_x |-> 0, tiles_y |-> 0,
             stride_x |-> FloatOfInt(0), stride_y |-> FloatOfInt(0)]

Empty == <<>>

\* Nothing printed yet.
NoReport == <<>>

\* The tiler and the merger before split_all_images is called on one of runs.
InitPipeline(runs) ==
  /\ \E run \in runs :
       /\ tile_size = run.cfg.tile_size
       /\ min_overlap = run.cfg.min_overlap
       /\ image_files = NamedFiles(run.files)
  /\ pc = "split_all"
  /\ i = 0
  /\ tiling = NoTiling
  /\ row = 0
  /\ col = 0
  /\ tiles_info = <<>>
  /\ returned = <<>>
  /\ all_images_info = <<>>
  /\ tiles_dir = Empty
  /\ manifest = <<>>
  /\ manifest_writes = 0
  /\ inference_dir = Empty
  /\ j = 0
  /\ t = 0
  /\ weight_matrix = Empty
  /\ accumulated_img = Empty
  /\ missing_tiles = <<>>
  /\ merge_log = <<>>
  /\ output_dir = Empty
  /\ success_count = 0
  /\ split_report = NoReport
  /\ merge_report = NoReport

\* The label directory before the increment is called on one of dirs.
InitLabels(dirs) ==
  /\ png_files \in dirs
  /\ png_before = png_files
  /\ png_index = 0
  /\ processed_count = 0

InitWith(runs) == InitPipeline(runs) /\ InitLabels({<<>>})

\* --------------------------------------------------------------- TilePlanner
\* Variant: floor instead of ceil in the tile count.
AxisTilingFloor(dim) ==
  IF dim <= tile_size THEN <<1, FloatOfInt(tile_size)>>
  ELSE LET tiles == ((dim - tile_size) \div (tile_size - min_overlap)) + 1
       IN <<tiles, IF tiles = 1 THEN FloatOfInt(tile_size)
                   ELSE Stride(dim - tile_size, tiles - 1)>>

\* Variant: the ceil formula on every axis, also one not longer than the tile.
AxisTilingFormula(dim) ==
  LET over == dim - tile_size
      step == tile_size - min_overlap
      tiles == (0 - ((0 - over) \div step)) + 1
  IN <<tiles, IF tiles <= 1 THEN FloatOfInt(tile_size)
              ELSE Stride(over, tiles - 1)>>

\* One axis of calculate_optimal_tiling: <<tiles, stride>>.
AxisTiling(dim) ==
  IF dim <= tile_size THEN <<1, FloatOfInt(tile_size)>>
  ELSE LET tiles == CeilDiv(dim - tile_size, tile_size - min_overlap) + 1
       IN <<tiles, IF tiles = 1 THEN FloatOfInt(tile_size)
                   ELSE Stride(dim - tile_size, tiles - 1)>>

\* calculate_optimal_tiling raises ZeroDivisionError: an axis longer than the
\* tile is divided by tile_size - min_overlap = 0.
PlanRaises(width, height) ==
  /\ tile_size = min_overlap
  /\ width > tile_size \/ height > tile_size

calculate_optimal_tiling(width, height) ==
  IF width <= tile_size /\ height <= tile_size
  THEN [tiles_x |-> 1, tiles_y |-> 1,
        stride_x |-> FloatOfInt(tile_size), stride_y |-> FloatOfInt(tile_size)]
  ELSE [tiles_x |-> AxisTiling(width)[1], tiles_y |-> AxisTiling(height)[1],
        stride_x |-> AxisTiling(width)[2], stride_y |-> AxisTiling(height)[2]]

\* --------------------------------------------------------------------- Tiler
\* Variant: the end not clamped to the image.
AxisSpanNoClamp(n, stride, dim) ==
  LET start == TruncMul(n, stride)
  IN <<start, start + tile_size>>

\* One axis of the tile rectangle: <<start, end>> of tile number n.
AxisSpan(n, stride, dim) ==
  LET start == TruncMul(n, stride)
      end == Min(start + tile_size, dim)
  IN IF end - start < tile_size THEN <<Max(0, end - tile_size), end>>
     ELSE <<start, end>>

\* Variant: the id counts the images split so far, so that an image that
\* fails does not use one up.
ImageIdOfSuccess(n) ==
  [prefix |-> "img_", digits |-> ZeroPad(Len(all_images_info), 4)]

\* image_id = f"img_{i:04d}" of split_all_images.
ImageId(n) == [prefix |-> "img_", digits |-> ZeroPad(n, 4)]

\* tile_filename = f"{image_id}_tile_{row:03d}_{col:03d}.png"
TileName(image_id, r, c) ==
  [image_id |-> image_id, row |-> ZeroPad(r, 3), col |-> ZeroPad(c, 3),
   ext |-> ".png"]

\* Variant: needs_padding only when both dimensions fall short.
TileInfoBothShort(image_id, r, c, tl, img) ==
  LET xs == AxisSpan(c, tl.stride_x, img.width)
      ys == AxisSpan(r, tl.stride_y, img.height)
      aw == xs[2] - xs[1]
      ah == ys[2] - ys[1]
  IN [filename |-> TileName(image_id, r, c), row |-> r, col |-> c,
      x_start |-> xs[1], y_start |-> ys[1], x_end |-> xs[2], y_end |-> ys[2],
      actual_width |-> aw, actual_height |-> ah,
      needs_padding |-> (aw < tile_size /\ ah < tile_size)]

\* The tile record of (r, c), as split_image appends it to tiles_info.
TileInfo(image_id, r, c, tl, img) ==
  LET xs == AxisSpan(c, tl.stride_x, img.width)
      ys == AxisSpan(r, tl.stride_y, img.height)
      aw == xs[2] - xs[1]
      ah == ys[2] - ys[1]
  IN [filename |-> TileName(image_id, r, c), row |-> r, col |-> c,
      x_start |-> xs[1], y_start |-> ys[1], x_end |-> xs[2], y_end |-> ys[2],
      actual_width |-> aw, actual_height |-> ah,
      needs_padding |-> (aw < tile_size \/ ah < tile_size)]

\* img.crop((x_start, y_start, x_end, y_end)) as an array.
Crop(img, ti) ==
  [height |-> ti.actual_height, width |-> ti.actual_width,
   px |-> [p \in (0..(ti.actual_height - 1)) \X (0..(ti.actual_width - 1)) |->
             Pixel(img, ti.y_start + p[1], ti.x_start + p[2])]]

\* Variant: constant (black) padding.
PadBlack(a, size) ==
  [height |-> size, width |-> size,
   px |-> [p \in (0..(size - 1)) \X (0..(size - 1)) |->
             IF p[1] < a.height /\ p[2] < a.width THEN a.px[p] ELSE 0]]

\* np.pad(a, ((0, size - h), (0, size - w), (0, 0)), mode='edge').
PadEdge(a, size) ==
  [height |-> size, width |-> size,
   px |-> [p \in (0..(size - 1)) \X (0..(size - 1)) |->
             a.px[<<Min(p[1], a.height - 1), Min(p[2], a.width - 1)>>]]]

\* The tile image that split_image saves for the tile record ti.
TileImage(img, ti) ==
  IF ti.needs_padding THEN PadEdge(Crop(img, ti), tile_size) ELSE Crop(img, ti)

ImageInfo(image_id, img, tl, tiles) ==
  [image_id |-> image_id, original_filename |-> img.name,
   original_width |-> img.width, original_height |-> img.height,
   tile_size |-> tile_size, min_overlap |-> min_overlap,
   tiles_x |-> tl.tiles_x, tiles_y |-> tl.tiles_y,
   stride_x |-> tl.stride_x, stride_y |-> tl.stride_y,
   total_tiles |-> Len(tiles), tiles |-> tiles]

\* The tile loops of split_image are over: range(tiles_y) is exhausted, or
\* range(tiles_x) is empty.
LoopsDone == row >= tiling.tiles_y \/ tiling.tiles_x <= 0

\* split_all_images calls split_image on the next file; when Image.open fails
\* on an unreadable file or calculate_optimal_tiling raises, split_image
\* returns None.
OpenImage ==
  /\ pc = "split_all"
  /\ i < Len(image_files)
  /\ LET img == image_files[i + 1]
     IN IF img.readable /\ ~PlanRaises(img.width, img.height)
        THEN /\ tiling' = calculate_optimal_tiling(img.width, img.height)
             /\ pc' = "split_image"
             /\ UNCHANGED <<i, returned>>
        ELSE /\ returned' = Append(returned, FALSE)
             /\ i' = i + 1
             /\ UNCHANGED <<tiling, pc>>
  /\ row' = 0
  /\ col' = 0
  /\ tiles_info' = <<>>
  /\ UNCHANGED <<tile_size, min_overlap, image_files, all_images_info,
                 tiles_dir, manifest, manifest_writes, split_report>>
  /\ UNCHANGED mergeVars
  /\ UNCHANGED labelVars

\* One pass of the tile loops: rectangle, crop, pad, save, record.
SaveTile ==
  /\ pc = "split_image"
  /\ ~LoopsDone
  /\ LET img == image_files[i + 1]
         ti == TileInfo(ImageId(i), row, col, tiling, img)
     IN /\ tiles_dir' = (ti.filename :> TileImage(img, ti)) @@ tiles_dir
        /\ tiles_info' = Append(tiles_info, ti)
  /\ IF col + 1 < tiling.tiles_x
     THEN col' = col + 1 /\ row' = row
     ELSE col' = 0 /\ row' = row + 1
  /\ UNCHANGED <<tile_size, min_overlap, image_files, pc, i, tiling, returned,
                 all_images_info, manifest, manifest_writes, split_report>>
  /\ UNCHANGED mergeVars
  /\ UNCHANGED labelVars

\* tile.save raises (an I/O error): the except clause of split_image returns
\* None; the tiles saved so far stay in the tiles directory.
SaveFails ==
  /\ pc = "split_image"
  /\ ~LoopsDone
  /\ returned' = Append(returned, FALSE)
  /\ i' = i + 1
  /\ pc' = "split_all"
  /\ UNCHANGED <<tile_size, min_overlap, image_files, tiling, row, col,
                 tiles_info, all_images_info, tiles_dir, manifest,
                 manifest_writes, split_report>>
  /\ UNCHANGED mergeVars
  /\ UNCHANGED labelVars

\* The loops are over: split_image returns image_info and split_all_images
\* appends it.
ReturnInfo ==
  /\ pc = "split_image"
  /\ LoopsDone
  /\ all_images_info' =
       Append(all_images_info,
              ImageInfo(ImageId(i), image_files[i + 1], tiling, tiles_info))
  /\ returned' = Append(returned, TRUE)
  /\ i' = i + 1
  /\ pc' = "split_all"
  /\ UNCHANGED <<tile_size, min_overlap, image_files, tiling, row, col,
                 tiles_info, tiles_dir, manifest, manifest_writes,
                 split_report>>
  /\ UNCHANGED mergeVars
  /\ UNCHANGED labelVars

\* total_tiles of split_all_images: the sum of total_tiles over the plans.
RECURSIVE SumTiles(_)
SumTiles(infos) ==
  IF Len(infos) = 0 THEN 0 ELSE infos[1].total_tiles + SumTiles(Tail(infos))

\* The glob found no image file: split_all_images says so and returns; no
\* manifest is written.
NoImages ==
  /\ pc = "split_all"
  /\ Len(image_files) = 0
  /\ pc' = "done"
  /\ UNCHANGED splitVars
  /\ UNCHANGED mergeVars
  /\ UNCHANGED labelVars

\* After the last file: json.dump(all_images_info), then the closing
\* statistics: the number of plans and the number of tiles.
WriteManifest ==
  /\ pc = "split_all"
  /\ Len(image_files) > 0
  /\ i = Len(image_files)
  /\ manifest' = all_images_info
  /\ manifest_writes' = manifest_writes + 1
  /\ split_report' = [images |-> Len(all_images_info),
                      tiles |-> SumTiles(all_images_info),
                      tiles_path |-> [stem |-> "tiles", ext |-> ""],
                      info_path |-> [stem |-> "tiling_info", ext |-> ".json"]]
  /\ pc' = "inference"
  /\ UNCHANGED <<tile_size, min_overlap, image_files, i, tiling, row, col,
                 tiles_info, returned, all_images_info, tiles_dir>>
  /\ UNCHANGED mergeVars
  /\ UNCHANGED labelVars

SplitNext ==
  NoImages \/ OpenImage \/ SaveTile \/ SaveFails \/ ReturnInfo \/ WriteManifest

TilerInit == InitWith(GridRuns \cup LongRuns \cup BatchRuns \cup InvalidRuns)

TilerSpec == TilerInit /\ [][SplitNext]_vars

\* ------------------------------------------------------ external inference
\* The file that the inference step writes for a tile: the tile filename, or
\* the tile filename with _pred before the extension.
InferenceName(f, suffix) == [base |-> f, suffix |-> suffix]

\* What the inference step can leave in place of a result: a file that
\* Image.open cannot read, or an image one pixel larger or one pixel smaller
\* than the tile in both dimensions.
DamageKinds == {"corrupt", "larger", "smaller"}

\* An image of h x w pixels with the content of a, its border repeated.
Resized(a, h, w) ==
  [readable |-> TRUE, height |-> h, width |-> w,
   px |-> [p \in (0..(h - 1)) \X (0..(w - 1)) |->
             a.px[<<Min(p[1], a.height - 1), Min(p[2], a.width - 1)>>]]]

\* The inference result for the stored tile a: a copy of it, or a damaged one.
ResultFor(a, kind) ==
  IF kind = "corrupt" THEN [readable |-> FALSE, height |-> 0, width |-> 0,
                            px |-> <<>>]
  ELSE IF kind = "larger" THEN Resized(a, a.height + 1, a.width + 1)
  ELSE IF kind = "smaller"
    THEN Resized(a, Max(1, a.height - 1), Max(1, a.width - 1))
  ELSE Resized(a, a.height, a.width)

\* The subsets of S with at most n elements.
RECURSIVE SubsetsUpTo(_, _)
SubsetsUpTo(S, n) ==
  IF n = 0 THEN {{}}
  ELSE LET fewer == SubsetsUpTo(S, n - 1)
       IN fewer \cup { s \cup {x} : s \in fewer, x \in S }

\* The results directory in which the results of absent are not there, those
\* of damaged are damaged and every other result is a copy of its tile.
ResultsDir(absent, damaged, kind, suffix) ==
  [n \in { InferenceName(f, suffix) : f \in (DOMAIN tiles_dir) \ absent } |->
     ResultFor(tiles_dir[n.base], IF n.base \in damaged THEN kind ELSE "copy")]

\* Between the two phases the external inference writes one result per tile
\* file: either up to MaxMissing results are absent, or up to MaxDamaged are
\* damaged (all in the same way); every other result is a copy of its tile.
Inference ==
  /\ pc = "inference"
  /\ \/ \E absent \in SubsetsUpTo(DOMAIN tiles_dir, MaxMissing),
            suffix \in {"", "_pred"} :
          inference_dir' = ResultsDir(absent, {}, "copy", suffix)
     \/ \E damaged \in SubsetsUpTo(DOMAIN tiles_dir, MaxDamaged) \ {{}},
            kind \in DamageKinds :
          inference_dir' = ResultsDir({}, damaged, kind, "")
  /\ pc' = "merge_all"
  /\ UNCHANGED splitVars
  /\ UNCHANGED <<j, t, weight_matrix, accumulated_img, missing_tiles,
                 merge_log, output_dir, success_count, merge_report>>
  /\ UNCHANGED labelVars

\* ------------------------------------------------------------ Reconstructor
FadeMax == 32

\* possible_names of merge_single_image; the third candidate, the stem of the
\* tile filename plus .png, is the tile filename again.
possible_names(tile_filename) ==
  <<InferenceName(tile_filename, ""), InferenceName(tile_filename, "_pred"),
    InferenceName(tile_filename, "")>>

\* Variant: only the tile filename itself is tried.
FindInferenceCanonical(tile_filename) ==
  { possible_names(tile_filename)[1] } \cap DOMAIN inference_dir

\* The first candidate that exists in the results directory, as a set: empty
\* when there is none.
FindInference(tile_filename) ==
  LET names == possible_names(tile_filename)
      hits == { n \in 1..Len(names) : names[n] \in DOMAIN inference_dir }
  IN IF hits = {} THEN {}
     ELSE { names[CHOOSE n \in hits : \A k \in hits : n <= k] }

\* The factor that the fade loops multiply into index n of an axis of length
\* len: (n + 1) / fade on the leading band, (len - n) / fade on the trailing.
FadeFactor(w, n, len, fade) ==
  LET lead == IF n < fade THEN F32Mul(w, F32OfRatio(n + 1, fade)) ELSE w
  IN IF n >= len - fade THEN F32Mul(lead, F32OfRatio(len - n, fade)) ELSE lead

\* tile_weight[y, x] of a tile of actual size (ah, aw).
TileWeight(y, x, ah, aw) ==
  LET fade_width == Min(FadeMax, aw \div 4)
      fade_height == Min(FadeMax, ah \div 4)
  IN IF fade_width > 0 /\ fade_height > 0
     THEN FadeFactor(FadeFactor(F32One, y, ah, fade_height), x, aw, fade_width)
     ELSE F32One

Zeros(h, w) == [p \in (0..(h - 1)) \X (0..(w - 1)) |-> F32Zero]

InTile(ti, p) ==
  /\ ti.y_start <= p[1] /\ p[1] < ti.y_end
  /\ ti.x_start <= p[2] /\ p[2] < ti.x_end

\* cropped_result = result_array[:actual_height, :actual_width]: the slice
\* stops at the end of the array when the array is the shorter one.
Cropped(result, ti) ==
  [height |-> Min(result.height, ti.actual_height),
   width |-> Min(result.width, ti.actual_width), px |-> result.px]

\* numpy broadcasts an axis of extent 1 against the tile weight and raises on
\* any other extent that differs from the weight's.
Broadcastable(c, ti) ==
  /\ c.height = ti.actual_height \/ c.height = 1
  /\ c.width = ti.actual_width \/ c.width = 1

\* The element of the cropped result that meets element q of the tile weight.
Broadcast(c, q) ==
  <<IF c.height = 1 THEN 0 ELSE q[1], IF c.width = 1 THEN 0 ELSE q[2]>>

\* Variant: the result added without its weight.
AccumulateNoWeight(acc, ti, c) ==
  [p \in DOMAIN acc |->
     IF InTile(ti, p)
     THEN LET q == <<p[1] - ti.y_start, p[2] - ti.x_start>>
          IN F32Add(acc[p], F32OfInt(c.px[Broadcast(c, q)]))
     ELSE acc[p]]

\* accumulated_img[y_start:y_end, x_start:x_end] += cropped_result * tile_weight
Accumulate(acc, ti, c) ==
  [p \in DOMAIN acc |->
     IF InTile(ti, p)
     THEN LET q == <<p[1] - ti.y_start, p[2] - ti.x_start>>
          IN F32Add(acc[p],
                    F32Mul(F32OfInt(c.px[Broadcast(c, q)]),
                           TileWeight(q[1], q[2], ti.actual_height, ti.actual_width)))
     ELSE acc[p]]

\* Variant: the tile weight assigned to the region instead of added to it, so
\* that the last tile processed wins.
AddWeightAssign(wm, ti) ==
  [p \in DOMAIN wm |->
     IF InTile(ti, p)
     THEN TileWeight(p[1] - ti.y_start, p[2] - ti.x_start,
                     ti.actual_height, ti.actual_width)
     ELSE wm[p]]

\* weight_matrix[y_start:y_end, x_start:x_end] += tile_weight
AddWeight(wm, ti) ==
  [p \in DOMAIN wm |->
     IF InTile(ti, p)
     THEN F32Add(wm[p], TileWeight(p[1] - ti.y_start, p[2] - ti.x_start,
                                   ti.actual_height, ti.actual_width))
     ELSE wm[p]]

\* Variant: the quotient rounded to the nearest integer.
FinalPixelRounded(a, w) == F32ToUint8Nearest(F32Div(a, IF w.m = 0 THEN F32One ELSE w))

\* One pixel of the final result: zero weight becomes 1, then divide, clip
\* and convert to uint8.
FinalPixel(a, w) == F32ToUint8(F32Div(a, IF w.m = 0 THEN F32One ELSE w))

OutputName(info) == [stem |-> info.original_filename.stem, suffix |-> "_merged.png"]

\* merge_all_images takes the next plan of the manifest and merge_single_image
\* allocates its buffers.
StartMerge ==
  /\ pc = "merge_all"
  /\ j < Len(manifest)
  /\ LET info == manifest[j + 1]
     IN /\ weight_matrix' = Zeros(info.original_height, info.original_width)
        /\ accumulated_img' = Zeros(info.original_height, info.original_width)
  /\ missing_tiles' = <<>>
  /\ t' = 1
  /\ pc' = "merge_single"
  /\ UNCHANGED splitVars
  /\ UNCHANGED <<inference_dir, j, merge_log, output_dir, success_count,
                 merge_report>>
  /\ UNCHANGED labelVars

\* The result of tile ti makes merge_single_image raise: Image.open cannot
\* read it, or its cropped array does not broadcast against the tile weight.
Raises(result, ti) ==
  \/ ~result.readable
  \/ ~Broadcastable(Cropped(result, ti), ti)

\* Variant: a merge that returns False ends merge_all_images.
AfterFailureAbort == "done"

\* Where merge_all_images is after merge_single_image returned False: in its
\* loop, which goes on with the next plan.
AfterFailure == "merge_all"

\* The names that merge_single_image prints of a list of missing tiles.
ShowMax == 5

Shown(missing) == SubSeq(missing, 1, Min(ShowMax, Len(missing)))

\* One pass of the tile loop of merge_single_image: look the result up, and
\* either note it missing or crop it to the tile's actual size, weight it and
\* add it to the buffers.  An exception ends merge_single_image: the except
\* clause prints the error and returns False, nothing is saved, and
\* merge_all_images goes on to the next plan.
MergeTile ==
  /\ pc = "merge_single"
  /\ t <= Len(manifest[j + 1].tiles)
  /\ LET ti == manifest[j + 1].tiles[t]
         found == FindInference(ti.filename)
         result == inference_dir[CHOOSE n \in found : TRUE]
     IN IF found = {}
        THEN /\ missing_tiles' = Append(missing_tiles, ti.filename)
             /\ t' = t + 1
             /\ UNCHANGED <<accumulated_img, weight_matrix, pc, j, merge_log>>
        ELSE IF Raises(result, ti)
        THEN /\ merge_log' = Append(merge_log,
                                    [image_id |-> manifest[j + 1].image_id,
                                     ok |-> FALSE, missing |-> missing_tiles,
                                     shown |-> <<>>])
             /\ j' = j + 1
             /\ pc' = AfterFailure
             /\ weight_matrix' = Empty
             /\ accumulated_img' = Empty
             /\ missing_tiles' = <<>>
             /\ t' = 0
        ELSE /\ accumulated_img' =
                  Accumulate(accumulated_img, ti, Cropped(result, ti))
             /\ weight_matrix' = AddWeight(weight_matrix, ti)
             /\ t' = t + 1
             /\ UNCHANGED <<missing_tiles, pc, j, merge_log>>
  /\ UNCHANGED splitVars
  /\ UNCHANGED <<inference_dir, output_dir, success_count, merge_report>>
  /\ UNCHANGED labelVars

\* After the last tile: finalize, save the reconstruction, print the missing
\* tiles (the first ShowMax names), return True; the caller counts the
\* success and moves to the next plan.
Finalize ==
  /\ pc = "merge_single"
  /\ t > Len(manifest[j + 1].tiles)
  /\ LET info == manifest[j + 1]
     IN output_dir' =
          (OutputName(info) :>
             [height |-> info.original_height, width |-> info.original_width,
              px |-> [p \in DOMAIN accumulated_img |->
                        FinalPixel(accumulated_img[p], weight_matrix[p])]])
          @@ output_dir
  /\ merge_log' = Append(merge_log, [image_id |-> manifest[j + 1].image_id,
                                     ok |-> TRUE, missing |-> missing_tiles,
                                     shown |-> Shown(missing_tiles)])
  /\ success_count' = success_count + 1
  /\ j' = j + 1
  /\ pc' = "merge_all"
  /\ weight_matrix' = Empty
  /\ accumulated_img' = Empty
  /\ missing_tiles' = <<>>
  /\ t' = 0
  /\ UNCHANGED splitVars
  /\ UNCHANGED <<inference_dir, merge_report>>
  /\ UNCHANGED labelVars

\* merge_all_images has gone through the whole manifest and prints the
\* closing statistics: the number of plans and the number of successes.
Finish ==
  /\ pc = "merge_all"
  /\ j = Len(manifest)
  /\ merge_report' = [total |-> Len(manifest), success |-> success_count,
                      output_dir |-> [stem |-> "merged", ext |-> ""]]
  /\ pc' = "done"
  /\ UNCHANGED splitVars
  /\ UNCHANGED <<inference_dir, j, t, weight_matrix, accumulated_img,
                 missing_tiles, merge_log, output_dir, success_count>>
  /\ UNCHANGED labelVars

MergeNext == Inference \/ StartMerge \/ MergeTile \/ Finalize \/ Finish

Next == SplitNext \/ MergeNext

Init ==
  InitWith(GridRuns \cup BatchRuns \cup BlendRuns \cup InvalidRuns \cup OverlapRuns
             \cup StemRuns)

Spec == Init /\ [][Next]_vars

\* ------------------------------------------------------- changepngvalue.py
\* uint8 + int: numpy keeps the type of the array, so the sum is reduced
\* modulo 2^8.
UInt8Add(v, n) == (v + n) % 256

\* np.clip(v, lo, hi)
Clip(v, lo, hi) == Max(lo, Min(v, hi))

\* One pass of the file loop of increment_label_pixels and of
\* increment_single_labels_dir: a file that cannot be opened is reported, a
\* file of more than one channel is skipped, and every other file is
\* rewritten in place with img_array + 1, clipped to 0..255.
IncrementLabel ==
  /\ png_index < Len(png_files)
  /\ LET n == png_index + 1
         img_array == png_files[n].px
     IN IF png_files[n].readable /\ png_files[n].channels = 1
        THEN /\ png_files' =
                  [png_files EXCEPT ![n].px =
                     [q \in DOMAIN img_array |->
                        Clip(UInt8Add(img_array[q], 1), 0, 255)]]
             /\ processed_count' = processed_count + 1
        ELSE UNCHANGED <<png_files, processed_count>>
  /\ png_index' = png_index + 1
  /\ UNCHANGED png_before
  /\ UNCHANGED splitVars
  /\ UNCHANGED mergeVars
  /\ UNCHANGED pc

LabelNext == IncrementLabel

LabelInit == InitPipeline({IdleRun}) /\ InitLabels(LabelDirs)

LabelSpec == LabelInit /\ [][LabelNext]_vars

\* ---------------------------------------------------------------- claims
\* The ImagePlans that split_image has returned so far.
AllPlans == { all_images_info[k] : k \in 1..Len(all_images_info) }

\* The precondition of the planner on the configuration.
ValidConfig(ts, mo) == ts > 0 /\ 0 <= mo /\ mo < ts

\* The plans made under a configuration that meets the precondition.
Plans == { info \in AllPlans : ValidConfig(info.tile_size, info.min_overlap) }

TilesOf(info) == { info.tiles[n] : n \in 1..Len(info.tiles) }

\* The number that a digit sequence writes.
RECURSIVE Value(_)
Value(d) ==
  IF Len(d) = 0 THEN 0 ELSE 10 * Value(SubSeq(d, 1, Len(d) - 1)) + d[Len(d)]

SourceOf(info) == image_files[Value(info.image_id.digits) + 1]

\* ceil(a / b) for any integer a and b > 0.
Ceil(a, b) == 0 - ((0 - a) \div b)

\* The tile count that the formula of the specification gives for one axis.
FormulaTiles(info, dim) ==
  Ceil(dim - info.tile_size, info.tile_size - info.min_overlap) + 1

\* C1: the tile rectangles of every plan together cover every pixel of
\* [0, width) x [0, height).
C1_Covering ==
  \A info \in Plans :
    \A x \in 0..(info.original_width - 1), y \in 0..(info.original_height - 1) :
      \E ti \in TilesOf(info) :
        /\ ti.x_start <= x /\ x < ti.x_end
        /\ ti.y_start <= y /\ y < ti.y_end

\* C2: two tiles that are neighbours in a row share at least min_overlap
\* pixel columns, and two neighbours in a column at least min_overlap rows.
C2_OverlapFloor ==
  \A info \in Plans :
    \A a, b \in TilesOf(info) :
      /\ (a.row = b.row /\ b.col = a.col + 1)
           => a.x_end - b.x_start >= info.min_overlap
      /\ (a.col = b.col /\ b.row = a.row + 1)
           => a.y_end - b.y_start >= info.min_overlap

C2_Witness ==
  \E info \in Plans :
    /\ info.min_overlap >= 1
    /\ \/ info.tiles_x >= 3 /\ info.stride_x.err # 0
       \/ info.tiles_y >= 3 /\ info.stride_y.err # 0

\* C3: a tile is tile_size wide unless the image is narrower than tile_size,
\* tile_size tall unless the image is lower, and needs_padding holds exactly
\* when the image is smaller than tile_size in some dimension.
C3_FullSize ==
  \A info \in Plans :
    \A ti \in TilesOf(info) :
      /\ info.original_width >= info.tile_size
           => ti.actual_width = info.tile_size
      /\ info.original_height >= info.tile_size
           => ti.actual_height = info.tile_size
      /\ ti.needs_padding <=> (\/ info.original_width < info.tile_size
                               \/ info.original_height < info.tile_size)

C3_Witness ==
  \E info \in Plans :
    /\ info.tiles_x > 1
    /\ info.original_height < info.tile_size
    /\ \A ti \in TilesOf(info) :
         ti.needs_padding /\ ti.actual_width = info.tile_size

\* C6 (as claimed): outside the single-tile case both axes get
\* ceil((dimension - tile_size) / (tile_size - min_overlap)) + 1 tiles.
C6_FormulaOnBothAxes ==
  \A info \in Plans :
    (info.original_width > info.tile_size \/ info.original_height > info.tile_size)
      => /\ info.tiles_x = FormulaTiles(info, info.original_width)
         /\ info.tiles_y = FormulaTiles(info, info.original_height)

\* C6 (amended): outside the single-tile case an axis longer than tile_size
\* gets ceil((dimension - tile_size) / (tile_size - min_overlap)) + 1 tiles
\* and an axis not longer than tile_size gets 1 tile, which is what the
\* formula gives exactly when the dimension exceeds min_overlap.
C6_TileCount ==
  \A info \in Plans :
    (info.original_width > info.tile_size \/ info.original_height > info.tile_size)
      => \A ax \in { <<info.original_width, info.tiles_x>>,
                     <<info.original_height, info.tiles_y>> } :
           /\ ax[1] > info.tile_size => ax[2] = FormulaTiles(info, ax[1])
           /\ ax[1] <= info.tile_size => ax[2] = 1
           /\ ax[1] <= info.tile_size
                => (FormulaTiles(info, ax[1]) = 1 <=> ax[1] > info.min_overlap)

C6_Witness ==
  \E info \in Plans :
    /\ info.original_width > info.tile_size
    /\ info.tiles_x >= 3
    /\ info.original_height <= info.min_overlap
    /\ info.tiles_y = 1

\* C7: on an axis with more than one tile the stride is
\* (dimension - tile_size) / (tiles - 1), the first tile starts at 0 and the
\* last tile ends exactly on the image boundary.
C7_EvenDistribution ==
  \A info \in Plans :
    \A ti \in TilesOf(info) :
      /\ info.tiles_x > 1 =>
           /\ info.stride_x.num = info.original_width - info.tile_size
           /\ info.stride_x.den = info.tiles_x - 1
           /\ ti.col = 0 => ti.x_start = 0
           /\ ti.col = info.tiles_x - 1 => ti.x_end = info.original_width
      /\ info.tiles_y > 1 =>
           /\ info.stride_y.num = info.original_height - info.tile_size
           /\ info.stride_y.den = info.tiles_y - 1
           /\ ti.row = 0 => ti.y_start = 0
           /\ ti.row = info.tiles_y - 1 => ti.y_end = info.original_height

C9_WellFormed ==
  \A info \in Plans :
    /\ Len(info.tiles) = info.tiles_x * info.tiles_y
    /\ info.total_tiles = Len(info.tiles)
    /\ \A n \in 1..Len(info.tiles) :
         LET ti == info.tiles[n]
         IN /\ 0 <= ti.x_start /\ ti.x_start < ti.x_end
            /\ ti.x_end <= info.original_width
            /\ 0 <= ti.y_start /\ ti.y_start < ti.y_end
            /\ ti.y_end <= info.original_height
            /\ ti.x_end - ti.x_start <= info.tile_size
            /\ ti.y_end - ti.y_start <= info.tile_size
            /\ ti.actual_width = ti.x_end - ti.x_start
            /\ ti.actual_height = ti.y_end - ti.y_start
            /\ ti.row = (n - 1) \div info.tiles_x
            /\ ti.col = (n - 1) % info.tiles_x

C9_Witness ==
  \E info \in Plans :
    /\ info.tiles_x >= 2 /\ info.tiles_y >= 2
    /\ Len(info.tiles) = info.tiles_x * info.tiles_y

\* C10: an image whose split failed has no plan in the collected plans and
\* no tile file in the tiles directory, and the batch goes on.
C10_AtomicFailure ==
  \A k \in 1..Len(returned) :
    returned[k] = FALSE =>
      /\ \A info \in Plans : info.image_id # ImageId(k - 1)
      /\ \A f \in DOMAIN tiles_dir : f.image_id # ImageId(k - 1)
      /\ pc \in {"split_all", "split_image"} => i >= k

\* The plans whose merge has returned, by position in the manifest.
Merged == 1..Len(merge_log)

\* The reconstruction of plan k is still the file that its merge wrote: no
\* later merge of the manifest has saved to the same output path.
Kept(k) ==
  \A n \in Merged :
    (n > k /\ merge_log[n].ok) => OutputName(manifest[n]) # OutputName(manifest[k])

\* An inference result exists for the tile file f, under either name.
Present(f) ==
  \E suffix \in {"", "_pred"} : InferenceName(f, suffix) \in DOMAIN inference_dir

ResultOf(f) ==
  inference_dir[CHOOSE n \in { InferenceName(f, ""), InferenceName(f, "_pred") } :
                  n \in DOMAIN inference_dir]

\* Every inference result present for the plan is a readable copy of its tile.
Intact(info) ==
  \A ti \in TilesOf(info) :
    Present(ti.filename)
      => ResultOf(ti.filename) = ResultFor(tiles_dir[ti.filename], "copy")

PixelsOf(info) ==
  (0..(info.original_height - 1)) \X (0..(info.original_width - 1))

Covering(info, p) == { n \in 1..Len(info.tiles) : InTile(info.tiles[n], p) }

Abs(n) == IF n < 0 THEN 0 - n ELSE n

\* C4: with every inference result present and a copy of its tile, the
\* reconstruction equals the source exactly at pixels that one tile covers
\* and within one intensity level at pixels that several tiles cover.
C4_RoundTrip ==
  \A k \in Merged :
    LET info == manifest[k]
        out == output_dir[OutputName(info)]
    IN (Kept(k) /\ Intact(info) /\ merge_log[k].ok /\ merge_log[k].missing = <<>>) =>
         \A p \in PixelsOf(info) :
           LET orig == Pixel(SourceOf(info), p[1], p[2])
           IN /\ Cardinality(Covering(info, p)) = 1 => out.px[p] = orig
              /\ Cardinality(Covering(info, p)) > 1 => Abs(out.px[p] - orig) <= 1

\* <<accumulated value, weight>> of pixel p over those of the tiles
\* n..Len(tiles) of the plan that cover p and whose number is in use, in plan
\* order.
RECURSIVE BlendOf(_, _, _, _, _)
BlendOf(info, p, n, aw, use) ==
  IF n > Len(info.tiles) THEN aw
  ELSE LET ti == info.tiles[n]
           q == <<p[1] - ti.y_start, p[2] - ti.x_start>>
       IN IF InTile(ti, p) /\ n \in use
          THEN LET w == TileWeight(q[1], q[2], ti.y_end - ti.y_start,
                                   ti.x_end - ti.x_start)
                   c == Cropped(ResultOf(ti.filename), ti)
                   v == F32OfInt(c.px[Broadcast(c, q)])
               IN BlendOf(info, p, n + 1,
                          <<F32Add(aw[1], F32Mul(v, w)), F32Add(aw[2], w)>>, use)
          ELSE BlendOf(info, p, n + 1, aw, use)

\* The numbers of the tiles of the plan that have an inference result.
PresentTiles(info) ==
  { n \in 1..Len(info.tiles) : Present(info.tiles[n].filename) }

\* The same over the tiles that have an inference result.
BlendFrom(info, p, n, aw) == BlendOf(info, p, n, aw, PresentTiles(info))

IsAbsent(ti) == ~Present(ti.filename)

NameOf(ti) == ti.filename

AbsentNames(info) ==
  LET absent == SelectSeq(info.tiles, IsAbsent)
  IN [n \in DOMAIN absent |-> NameOf(absent[n])]

\* C5: whatever inference results are absent, the merge of a plan whose
\* other results are copies of their tiles (and whose output file no later
\* merge has replaced) notes exactly the absent tiles as missing, returns
\* success, and writes an image of the original size in
\* which a pixel that no present tile covers is zero and every other pixel is
\* the weighted blend of the present tiles covering it; no weight is negative.
C5_MissingTiles ==
  /\ \A p \in DOMAIN weight_matrix :
       weight_matrix[p].m >= 0 /\ accumulated_img[p].m >= 0
  /\ \A k \in Merged :
       LET info == manifest[k]
           out == output_dir[OutputName(info)]
       IN (Intact(info) /\ Kept(k)) =>
            /\ merge_log[k].ok
            /\ merge_log[k].missing = AbsentNames(info)
            /\ out.width = info.original_width
            /\ out.height = info.original_height
            /\ DOMAIN out.px = PixelsOf(info)
            /\ \A p \in PixelsOf(info) :
                 LET aw == BlendFrom(info, p, 1, <<F32Zero, F32Zero>>)
                 IN IF \A n \in Covering(info, p) : IsAbsent(info.tiles[n])
                    THEN out.px[p] = 0
                    ELSE /\ aw[2].m > 0
                         /\ out.px[p] = F32ToUint8(F32Div(aw[1], aw[2]))

C5_Witness ==
  \E k \in Merged :
    LET info == manifest[k]
    IN /\ Intact(info)
       /\ merge_log[k].ok
       /\ Len(merge_log[k].missing) >= 1
       /\ OutputName(info) \in DOMAIN output_dir
       /\ \E p \in PixelsOf(info) :
            \A n \in Covering(info, p) : IsAbsent(info.tiles[n])
       /\ \E p \in PixelsOf(info) :
            /\ \E n \in Covering(info, p) : IsAbsent(info.tiles[n])
            /\ \E n \in Covering(info, p) : ~IsAbsent(info.tiles[n])

\* The positions, in the directory listing, of the files whose split has
\* returned a plan.
Succeeded(k) == returned[k]

OkIndices == SelectSeq([k \in 1..Len(returned) |-> k], Succeeded)

\* C11: when the listing is not empty, split_image has been called once per
\* file in listing order; the n-th plan collected belongs to the n-th file
\* whose split succeeded and carries the id img_ followed by that file's
\* position written with four digits, failed files counted; the manifest is
\* written once, after the last file, and holds the collected plans in order.
C11_BatchSplit ==
  Len(image_files) > 0 =>
    /\ Len(returned) = i
    /\ i <= Len(image_files)
    /\ Len(all_images_info) = Len(OkIndices)
    /\ \A n \in 1..Len(all_images_info) :
         LET info == all_images_info[n]
             k == OkIndices[n]
         IN /\ info.image_id = [prefix |-> "img_", digits |-> <<0, 0, 0, k - 1>>]
            /\ info.original_filename = image_files[k].name
            /\ \A ti \in TilesOf(info) : ti.filename.image_id = info.image_id
    /\ manifest_writes = IF pc \in {"split_all", "split_image"} THEN 0 ELSE 1
    /\ manifest_writes = 0 => manifest = <<>>
    /\ manifest_writes = 1 => /\ i = Len(image_files)
                              /\ manifest = all_images_info

C11_Witness ==
  /\ manifest_writes = 1
  /\ Len(manifest) >= 1
  /\ \E k \in 1..Len(returned) :
       /\ ~returned[k]
       /\ \E n \in (k + 1)..Len(returned) : returned[n]

\* C12: merge_all_images goes through the plans in manifest order whether or
\* not earlier merges failed: every plan up to the current one has been
\* attempted, at the end every plan of the manifest has been, and the success
\* count, also the one reported, is the number of merges that returned True.
C12_MergeAll ==
  /\ Len(merge_log) = j
  /\ j <= Len(manifest)
  /\ \A k \in Merged : merge_log[k].image_id = manifest[k].image_id
  /\ success_count = Cardinality({ k \in Merged : merge_log[k].ok })
  /\ (pc = "done" /\ Len(image_files) > 0) =>
       /\ Len(merge_log) = Len(manifest)
       /\ merge_report # NoReport
       /\ merge_report.total = Len(manifest)
       /\ merge_report.success = success_count

C12_Witness ==
  /\ pc = "done"
  /\ \E k \in Merged :
       /\ ~merge_log[k].ok
       /\ \E n \in Merged : n > k /\ merge_log[n].ok
  /\ merge_report.success < merge_report.total

\* The file names that a closing report prints.
NamesIn(report) ==
  { report[f] : f \in (DOMAIN report) \cap {"tiles_path", "info_path", "output_dir"} }

\* The files whose split failed, the plans whose merge failed, and the tiles
\* whose inference result was missing.
FailedSplits == { image_files[k].name : k \in { n \in 1..Len(returned) : ~returned[n] } }

FailedMerges == { manifest[k].original_filename : k \in { n \in Merged : ~merge_log[n].ok } }

MissingResults ==
  UNION { { merge_log[k].missing[n] : n \in 1..Len(merge_log[k].missing) } :
            k \in Merged }

\* C13: the closing report of the split names every file whose split failed
\* and gives their number; the closing report of the merge names every plan
\* whose merge failed and every tile whose result was missing, and gives
\* their numbers.
C13_FailuresReported ==
  /\ split_report # NoReport =>
       /\ FailedSplits \subseteq NamesIn(split_report)
       /\ split_report.images = Len(image_files) - Cardinality(FailedSplits)
  /\ merge_report # NoReport =>
       /\ FailedMerges \subseteq NamesIn(merge_report)
       /\ MissingResults \subseteq NamesIn(merge_report)
       /\ merge_report.total - merge_report.success = Cardinality(FailedMerges)

\* C14: every tile origin is an integer nearest to col * stride_x, and to
\* row * stride_y (either neighbour when the product lies half way).
C14_RoundedOrigins ==
  \A info \in Plans :
    \A ti \in TilesOf(info) :
      /\ 2 * Abs(ti.x_start * info.stride_x.den - ti.col * info.stride_x.num)
           <= info.stride_x.den
      /\ 2 * Abs(ti.y_start * info.stride_y.den - ti.row * info.stride_y.num)
           <= info.stride_y.den

\* The fade band of an axis of the given length.
AxisFade(len) == Min(FadeMax, len \div 4)

\* The weight of element (y, x) of a tile when each axis is ramped over its
\* own fade band, whatever the band of the other axis.
PerAxisWeight(y, x, ah, aw) ==
  FadeFactor(FadeFactor(F32One, y, ah, AxisFade(ah)), x, aw, AxisFade(aw))

\* The tiles of the plan being merged that have been added to the buffers.
Applied ==
  { n \in PresentTiles(manifest[j + 1]) : n < t }

\* C15: while a plan is merged, the weight at a pixel that exactly one added
\* tile covers is that tile's weight with each axis ramped over its own fade
\* band min(32, length // 4), whatever the band of the other axis.
C15_PerAxisFade ==
  pc = "merge_single" =>
    LET info == manifest[j + 1]
    IN \A p \in PixelsOf(info) :
         \A n \in Applied :
           (Covering(info, p) \cap Applied = {n}) =>
             LET ti == info.tiles[n]
             IN weight_matrix[p] =
                  PerAxisWeight(p[1] - ti.y_start, p[2] - ti.x_start,
                                ti.actual_height, ti.actual_width)

\* C16: every pixel of a reconstruction is the quotient of the accumulated
\* value by the weight (1 where the weight is 0), clamped to 0..255 and
\* rounded to the nearest integer.
C16_RoundedFinal ==
  \A k \in Merged :
    (merge_log[k].ok /\ Kept(k)) =>
      LET info == manifest[k]
          out == output_dir[OutputName(info)]
      IN \A p \in PixelsOf(info) :
           LET aw == BlendFrom(info, p, 1, <<F32Zero, F32Zero>>)
           IN out.px[p] = FinalPixelRounded(aw[1], aw[2])

\* The inference result of the tile has the pixel dimensions of the stored
\* tile.
SizeMatches(ti) ==
  LET result == ResultOf(ti.filename)
      stored == tiles_dir[ti.filename]
  IN result.height = stored.height /\ result.width = stored.width

\* C17: a readable inference result whose dimensions differ from those of
\* its tile is skipped: the merge of the plan returns success and the
\* reconstruction is the blend of the other results only.
C17_MismatchSkipped ==
  \A k \in Merged :
    LET info == manifest[k]
        readable == \A n \in PresentTiles(info) :
                      ResultOf(info.tiles[n].filename).readable
        fitting == { n \in PresentTiles(info) : SizeMatches(info.tiles[n]) }
    IN (readable /\ Kept(k)) =>
         /\ merge_log[k].ok
         /\ \A p \in PixelsOf(info) :
              LET aw == BlendOf(info, p, 1, <<F32Zero, F32Zero>>, fitting)
              IN output_dir[OutputName(info)].px[p] = FinalPixel(aw[1], aw[2])

\* C18: under a configuration with tile_size <= 0 or with min_overlap outside
\* 0 <= min_overlap < tile_size no image is planned or split, and no plan,
\* collected or written to the manifest, has a tile count below 1 on an axis
\* or no tile.
C18_ConfigValidated ==
  /\ ~ValidConfig(tile_size, min_overlap) =>
       /\ tiling = NoTiling
       /\ all_images_info = <<>>
       /\ tiles_dir = Empty
  /\ \A info \in AllPlans \cup { manifest[k] : k \in 1..Len(manifest) } :
       info.tiles_x >= 1 /\ info.tiles_y >= 1 /\ Len(info.tiles) >= 1

\* C19: every pixel v of a single-channel 8-bit label file that the increment
\* has gone through is min(v + 1, 255) afterwards: 255 stays 255.
C19_Saturates ==
  \A n \in 1..png_index :
    (png_before[n].readable /\ png_before[n].channels = 1) =>
      \A q \in DOMAIN png_before[n].px :
        png_files[n].px[q] = Min(png_before[n].px[q] + 1, 255)

\* The orders in which the tiles of the set S can be processed.
Orders(S) ==
  { o \in [1..Cardinality(S) -> S] :
      \A a, b \in 1..Cardinality(S) : a # b => o[a] # o[b] }

\* <<accumulated value, weight>> of pixel p after the results of the tiles
\* order[n], order[n + 1], ... are added to aw in that order.
RECURSIVE BlendInOrder(_, _, _, _, _)
BlendInOrder(info, p, order, n, aw) ==
  IF n > Len(order) THEN aw
  ELSE LET ti == info.tiles[order[n]]
           q == <<p[1] - ti.y_start, p[2] - ti.x_start>>
           w == TileWeight(q[1], q[2], ti.actual_height, ti.actual_width)
           c == Cropped(ResultOf(ti.filename), ti)
           v == F32OfInt(c.px[Broadcast(c, q)])
       IN BlendInOrder(info, p, order, n + 1,
                       <<F32Add(aw[1], F32Mul(v, w)), F32Add(aw[2], w)>>)

\* Every tile of the plan being merged has been gone through.
AllApplied == pc = "merge_single" /\ t > Len(manifest[j + 1].tiles)

\* The tiles with an inference result that cover pixel p of the plan.
PresentCovering(info, p) == Covering(info, p) \cap PresentTiles(info)

\* C20 (as claimed): after all tiles of a plan are applied, the accumulation
\* and weight buffers are at every pixel what any other processing order of
\* the present tiles would have given.
C20_AnyOrder ==
  AllApplied =>
    LET info == manifest[j + 1]
    IN \A p \in PixelsOf(info) :
         \A o \in Orders(PresentCovering(info, p)) :
           BlendInOrder(info, p, o, 1, <<F32Zero, F32Zero>>)
             = <<accumulated_img[p], weight_matrix[p]>>

\* C20 (amended): after all tiles of a plan are applied, the buffers at a
\* pixel that at most two present tiles cover are what any other processing
\* order would have given, and a pixel that no present tile covers is
\* untouched; with three or more covering tiles the float32 sums depend on the
\* order.
C20_OrderUpToTwo ==
  AllApplied =>
    LET info == manifest[j + 1]
    IN \A p \in PixelsOf(info) :
         Cardinality(PresentCovering(info, p)) <= 2 =>
           \A o \in Orders(PresentCovering(info, p)) :
             BlendInOrder(info, p, o, 1, <<F32Zero, F32Zero>>)
               = <<accumulated_img[p], weight_matrix[p]>>

C20_Witness ==
  /\ AllApplied
  /\ LET info == manifest[j + 1]
     IN /\ \E p \in PixelsOf(info) :
             /\ Cardinality(PresentCovering(info, p)) = 2
             /\ weight_matrix[p] # F32Add(F32One, F32One)
             /\ accumulated_img[p].m > 0
        /\ \E p \in PixelsOf(info) : Cardinality(PresentCovering(info, p)) = 3

\* A float32 weight is in (0, 1].
UnitWeight(w) == w.m > 0 /\ (w.e < 0 - 23 \/ w = F32One)

\* The value that the result of tile n of the plan supplies at pixel p.
SuppliedBy(info, n, p) ==
  LET ti == info.tiles[n]
      c == Cropped(ResultOf(ti.filename), ti)
  IN c.px[Broadcast(c, <<p[1] - ti.y_start, p[2] - ti.x_start>>)]

\* The values that the present tiles covering pixel p supply there.
Supplied(info, p) == { SuppliedBy(info, n, p) : n \in PresentCovering(info, p) }

\* C21: every tile weight is in (0, 1]; in a reconstruction, at a pixel that
\* at least one present tile covers, the total weight is positive and the
\* output lies between the smallest and the largest value that the covering
\* present tiles supply there, and at a pixel that exactly one present tile
\* covers the output is that tile's value.
C21_ConvexBlend ==
  \A k \in Merged :
    (merge_log[k].ok /\ Kept(k)) =>
      LET info == manifest[k]
          out == output_dir[OutputName(info)]
      IN /\ \A ti \in TilesOf(info) :
              \A y \in 0..(ti.actual_height - 1), x \in 0..(ti.actual_width - 1) :
                UnitWeight(TileWeight(y, x, ti.actual_height, ti.actual_width))
         /\ \A p \in PixelsOf(info) :
              PresentCovering(info, p) # {} =>
                /\ BlendFrom(info, p, 1, <<F32Zero, F32Zero>>)[2].m > 0
                /\ \E v \in Supplied(info, p) : v <= out.px[p]
                /\ \E v \in Supplied(info, p) : out.px[p] <= v
                /\ Cardinality(PresentCovering(info, p)) = 1
                     => out.px[p] \in Supplied(info, p)

\* The characters that a digit sequence is written with.
DigitChars == <<"0", "1", "2", "3", "4", "5", "6", "7", "8", "9">>

Chars(d) == [n \in DOMAIN d |-> DigitChars[d[n] + 1]]

\* A tile filename as the text that the format string produces.
TileText(f) ==
  <<f.image_id.prefix>> \o Chars(f.image_id.digits) \o <<"_tile_">>
    \o Chars(f.row) \o <<"_">> \o Chars(f.col) \o <<f.ext>>

\* An output filename as text: the stem of the source name, then _merged.png.
OutputText(info) == <<OutputName(info).stem, OutputName(info).suffix>>

\* The tiles of the manifest, as <<plan number, tile number>>.
ManifestTiles ==
  UNION { { <<k, n>> : n \in 1..Len(manifest[k].tiles) } : k \in 1..Len(manifest) }

\* The files of the listing are distinct files of the directory.
DistinctFiles ==
  \A a, b \in 1..Len(image_files) :
    a # b => image_files[a].name # image_files[b].name

\* C22 (first part): the tile filenames of all plans of a manifest are
\* pairwise distinct, and the tiles directory holds for every tile the image
\* cut for it from its own source.
C22_DistinctTiles ==
  DistinctFiles =>
    /\ \A a, b \in ManifestTiles :
         a # b => TileText(manifest[a[1]].tiles[a[2]].filename)
                    # TileText(manifest[b[1]].tiles[b[2]].filename)
    /\ \A a \in ManifestTiles :
         LET info == manifest[a[1]]
             ti == info.tiles[a[2]]
         IN /\ ti.filename \in DOMAIN tiles_dir
            /\ tiles_dir[ti.filename] = TileImage(SourceOf(info), ti)

\* C22: over a directory of distinct files, the tile filenames of all plans
\* of the manifest are pairwise distinct, no two plans of the manifest have
\* the same output path, also when their source files share the stem and
\* differ in the extension, and so every reconstruction written is still in
\* the output directory when merge_all_images ends.
C22_NoOverwrite ==
  DistinctFiles =>
    /\ C22_DistinctTiles
    /\ \A a, b \in 1..Len(manifest) :
         a # b => OutputText(manifest[a]) # OutputText(manifest[b])
    /\ Cardinality(DOMAIN output_dir) = success_count

====
